---------------------------- MODULE Spec2Model ----------------------------
(***************************************************************************)
(* The two Lambda handlers of src/main.py (CostAnomalyChecker/index.py and *)
(* NovaActExecutor/index.py) as a state machine: a hosting platform that   *)
(* runs NumInstances concurrent handler instances, each one invocation at  *)
(* a time.                                                                 *)
(*                                                                         *)
(* Conventions.                                                            *)
(*  - A Python dict with string keys is a TLA+ function from strings; a    *)
(*    dict whose order matters (the argument of json.dumps) is a sequence  *)
(*    of <<key, value>> pairs in insertion order.                          *)
(*  - A JSON text is the sequence of its lexical tokens: P(c) for          *)
(*    punctuation and literals, S(s) for a string literal with content s.  *)
(*    json_loads and json_dumps parse and print that token sequence.       *)
(*  - A decoded JSON value is a tagged record: PyNone, PyStr(s),           *)
(*    PyList(seq), PyDict(function).                                       *)
(*  - The lone surrogate U+D800 inside a Python str is written as the text *)
(*    Surrogate; print (UTF-8, errors=strict) cannot encode it.            *)
(***************************************************************************)
EXTENDS Integers, Sequences, FiniteSets, TLC

NumInstances == 2

Instances == 1..NumInstances

VARIABLES
  handler,    \* per instance: which lambda_handler the invocation runs
  event,      \* per instance: the event the invocation received
  pc,         \* per instance: "idle", "running", "sleeping" (in time.sleep),
              \* "done" (returned), "raised" (an exception left lambda_handler)
  locals,     \* per instance: resource_arn and policy_name while in time.sleep
  response,   \* per instance: the dict lambda_handler returned
  outcome,    \* per instance: the return statement the invocation ended in
  queried,    \* per instance: calls of mock_dynamodb_query in this invocation
  slept,      \* per instance: calls of time.sleep in this invocation
  mock_data   \* the table as the latest mock_dynamodb_query call left it

vars == <<handler, event, pc, locals, response, outcome, queried, slept, mock_data>>

----------------------------------------------------------------------------
(* Python values                                                           *)

PyNone == [t |-> "NoneType", v |-> <<>>]
PyStr(s) == [t |-> "str", v |-> s]
PyList(a) == [t |-> "list", v |-> a]
PyDict(f) == [t |-> "dict", v |-> f]

\* bool(x) for the values json.loads can return here.
Truthy(x) ==
  CASE x.t = "NoneType" -> FALSE
    [] x.t = "str" -> x.v # ""
    [] x.t = "list" -> Len(x.v) > 0
    [] x.t = "dict" -> DOMAIN x.v # {}

\* hash(x) raises TypeError for list and dict.
Hashable(x) == x.t \in {"NoneType", "str"}

Returned(v) == [raised |-> FALSE, val |-> v, exc |-> ""]
Raised(msg) == [raised |-> TRUE, val |-> PyNone, exc |-> msg]

\* s contains sub as a substring.
Contains(s, sub) ==
  \E i \in 1..(Len(s) - Len(sub) + 1) : SubSeq(s, i, i + Len(sub) - 1) = sub

----------------------------------------------------------------------------
(* JSON texts                                                              *)

P(c) == [k |-> "p", v |-> c]
S(s) == [k |-> "s", v |-> s]

ParseOk(v, rest) == [ok |-> TRUE, val |-> v, rest |-> rest, msg |-> ""]
ParseFail(msg) == [ok |-> FALSE, val |-> PyNone, rest |-> <<>>, msg |-> msg]

DictSet(d, key, val) ==
  [x \in DOMAIN d \cup {key} |-> IF x = key THEN val ELSE d[x]]

RECURSIVE ParseValue(_), ParseElements(_, _), ParseMembers(_, _)

ParseValue(ts) ==
  IF ts = <<>> THEN ParseFail("Expecting value")
  ELSE LET h == Head(ts) IN
    IF h.k = "s" THEN ParseOk(PyStr(h.v), Tail(ts))
    ELSE IF h.v = "null" THEN ParseOk(PyNone, Tail(ts))
    ELSE IF h.v = "[" THEN
      IF Len(ts) >= 2 /\ ts[2] = P("]")
      THEN ParseOk(PyList(<<>>), SubSeq(ts, 3, Len(ts)))
      ELSE ParseElements(Tail(ts), <<>>)
    ELSE IF h.v = "{" THEN
      IF Len(ts) >= 2 /\ ts[2] = P("}")
      THEN ParseOk(PyDict(<<>>), SubSeq(ts, 3, Len(ts)))
      ELSE ParseMembers(Tail(ts), <<>>)
    ELSE ParseFail("Expecting value")

ParseElements(ts, acc) ==
  LET r == ParseValue(ts) IN
  IF ~r.ok THEN r
  ELSE IF r.rest = <<>> THEN ParseFail("Expecting ',' delimiter")
  ELSE IF Head(r.rest) = P(",") THEN ParseElements(Tail(r.rest), Append(acc, r.val))
  ELSE IF Head(r.rest) = P("]") THEN ParseOk(PyList(Append(acc, r.val)), Tail(r.rest))
  ELSE ParseFail("Expecting ',' delimiter")

ParseMembers(ts, acc) ==
  IF ts = <<>> \/ Head(ts).k # "s"
  THEN ParseFail("Expecting property name enclosed in double quotes")
  ELSE IF Len(ts) < 2 \/ ts[2] # P(":") THEN ParseFail("Expecting ':' delimiter")
  ELSE LET r == ParseValue(SubSeq(ts, 3, Len(ts))) IN
    IF ~r.ok THEN r
    ELSE IF r.rest = <<>> THEN ParseFail("Expecting ',' delimiter")
    ELSE IF Head(r.rest) = P(",")
      THEN ParseMembers(Tail(r.rest), DictSet(acc, Head(ts).v, r.val))
    ELSE IF Head(r.rest) = P("}")
      THEN ParseOk(PyDict(DictSet(acc, Head(ts).v, r.val)), Tail(r.rest))
    ELSE ParseFail("Expecting ',' delimiter")

\* json.loads: the decoded value, or JSONDecodeError with CPython's message
\* (without the line/column suffix).
json_loads(s) ==
  LET r == ParseValue(s) IN
  IF ~r.ok THEN Raised(r.msg)
  ELSE IF r.rest # <<>> THEN Raised("Extra data")
  ELSE Returned(r.val)

RECURSIVE DumpItems(_)

DumpItems(items) ==
  IF items = <<>> THEN <<>>
  ELSE <<S(items[1][1]), P(":"), S(items[1][2])>>
       \o (IF Len(items) > 1 THEN <<P(",")>> ELSE <<>>)
       \o DumpItems(Tail(items))

\* json.dumps of a dict whose values are str, given as its items in order.
json_dumps(items) == <<P("{")>> \o DumpItems(items) \o <<P("}")>>

----------------------------------------------------------------------------
(* Formatting and printing                                                 *)

\* str() of a float given in hundredths: the shortest repr, so 980.50
\* prints as 980.5 and 450.75 as 450.75.
FormatFloat(h) ==
  LET c == h % 100 IN
  ToString(h \div 100) \o "." \o
    (IF c % 10 = 0 THEN ToString(c \div 10)
     ELSE IF c < 10 THEN "0" \o ToString(c)
     ELSE ToString(c))

\* format() of a value inside an f-string: a str as it is, None as "None".
\* (The repr of a list or dict is not modelled; none reaches an f-string in
\* the modelled events.)
FormatValue(x) ==
  CASE x.t = "str" -> x.v
    [] x.t = "NoneType" -> "None"

Surrogate == "<U+D800>"

FirstIndex(s, sub) ==
  CHOOSE i \in 1..Len(s) :
    /\ SubSeq(s, i, i + Len(sub) - 1) = sub
    /\ \A j \in 1..(i - 1) : SubSeq(s, j, j + Len(sub) - 1) # sub

\* print(s) to sys.stdout (UTF-8, errors=strict): returns None, or raises
\* UnicodeEncodeError when s holds a lone surrogate.
print(s) ==
  IF Contains(s, Surrogate)
  THEN Raised("'utf-8' codec can't encode character '\\ud800' in position "
              \o ToString(FirstIndex(s, Surrogate) - 1)
              \o ": surrogates not allowed")
  ELSE Returned(PyNone)

----------------------------------------------------------------------------
(* CostAnomalyChecker/index.py                                             *)

MockDataLiteral ==
  [id \in {"DB-001", "S3-005"} |->
    IF id = "DB-001"
    THEN [ResourceARN |-> "arn:aws:dynamodb:us-west-2:123456789012:table/HighCostTableA",
          AnomalyType |-> "DynamoDB-Capacity",
          CostImpactUSD |-> 45075,
          Service |-> "DynamoDB"]
    ELSE [ResourceARN |-> "arn:aws:s3:::customer-data-lake-prod",
          AnomalyType |-> "S3-HighOps",
          CostImpactUSD |-> 98050,
          Service |-> "S3"]]

\* dict.setdefault(key, default): inserts the default for an absent key.
dict_setdefault(d, key, default) ==
  [val |-> IF key \in DOMAIN d THEN d[key] ELSE default,
   dict |-> [k \in DOMAIN d \cup {key} |-> IF k \in DOMAIN d THEN d[k] ELSE default]]

\* dict.get(key, default): the value, and the dict as the call leaves it.
dict_get(d, key, default) ==
  [val |-> IF key \in DOMAIN d THEN d[key] ELSE default, dict |-> d]

\* mock_dynamodb_query(anomaly_id): builds the table, looks the identifier
\* up. table is the local mock_data when the call returns.
mock_dynamodb_query(anomaly_id) ==
  IF ~Hashable(anomaly_id)
  THEN [raised |-> TRUE,
        exc |-> "unhashable type: '" \o anomaly_id.t \o "'",
        val |-> [Error |-> "Anomaly not found"],
        table |-> MockDataLiteral]
  ELSE LET key == IF anomaly_id.t = "str" THEN anomaly_id.v ELSE ""
           g == dict_get(MockDataLiteral, key, [Error |-> "Anomaly not found"])
       IN [raised |-> FALSE, exc |-> "", val |-> g.val, table |-> g.dict]

\* The reads without the one of event['actionGroup'], whose value is unused.
ReadEnvelope_NoActionGroup(ev) ==
  IF "body" \notin DOMAIN ev THEN Raised("'body'")
  ELSE LET b == json_loads(ev["body"]) IN
    IF b.raised THEN b
    ELSE IF "function" \notin DOMAIN ev THEN Raised("'function'")
    ELSE Returned(b.val)

\* The three reads that open both handlers' try block (lines 44-50 and
\* 106-108): event['body'] decoded, event['actionGroup'], event['function'].
ReadEnvelope(ev) ==
  IF "body" \notin DOMAIN ev THEN Raised("'body'")
  ELSE LET b == json_loads(ev["body"]) IN
    IF b.raised THEN b
    ELSE IF "actionGroup" \notin DOMAIN ev THEN Raised("'actionGroup'")
    ELSE IF "function" \notin DOMAIN ev THEN Raised("'function'")
    ELSE Returned(b.val)

\* event_body.get(name): AttributeError unless event_body is a dict.
BodyGet(event_body, name) ==
  IF event_body.t # "dict"
  THEN Raised("'" \o event_body.t \o "' object has no attribute 'get'")
  ELSE Returned(dict_get(event_body.v, name, PyNone).val)

Return(site, items) ==
  [kind |-> "return", site |-> site, response |-> [x \in {"body"} |-> json_dumps(items)],
   queried |-> 0, table |-> MockDataLiteral, resource_arn |-> "", policy_name |-> ""]

\* An exception that leaves lambda_handler.
Propagate(msg) == [Return("Unhandled", <<>>) EXCEPT !.kind = "raise", !.response = <<>>]

\* A handler whose except block re-raises.
Unhandled_Reraise(msg) == Propagate(msg)

\* except Exception as e: the print of the message, then the return of
\* {error: str(e)}; an exception raised by that print leaves the handler.
\* (NovaActExecutor prints "Error processing Nova Act request: " instead.)
Unhandled(msg) ==
  IF print("Error processing request: " \o msg).raised
  THEN Propagate(msg)
  ELSE Return("Unhandled", << <<"error", msg>> >>)

\* The unknown-function answer under the result key.
UnknownFunction_AsResult(function_name) ==
  Return("UnknownOperation", << <<"result", "Unknown function: " \o function_name>> >>)

\* The unknown-function answer without the name received.
UnknownFunction_NoName(function_name) ==
  Return("UnknownOperation", << <<"error", "Unknown function">> >>)

UnknownFunction(function_name) ==
  Return("UnknownOperation", << <<"error", "Unknown function: " \o function_name>> >>)

\* A presence check that tests "is None" only.
AnomalyMissing_IsNone(anomaly_id) == anomaly_id.t = "NoneType"

AnomalyMissing(anomaly_id) == ~Truthy(anomaly_id)

\* The details string with the Service field in place of AnomalyType.
AnomalyDetails_Service(anomaly_details) ==
  "Anomaly found: ResourceARN=" \o anomaly_details.ResourceARN
    \o ", Type=" \o anomaly_details.Service
    \o ", Impact=" \o FormatFloat(anomaly_details.CostImpactUSD)

AnomalyDetails(anomaly_details) ==
  "Anomaly found: ResourceARN=" \o anomaly_details.ResourceARN
    \o ", Type=" \o anomaly_details.AnomalyType
    \o ", Impact=" \o FormatFloat(anomaly_details.CostImpactUSD)

\* lambda_handler of CostAnomalyChecker: what one invocation returns.
CostAnomalyChecker(ev) ==
  LET env == ReadEnvelope(ev) IN
  IF env.raised THEN Unhandled(env.exc)
  ELSE IF ev["function"] = "get_anomaly_details" THEN
    LET got == BodyGet(env.val, "anomaly_id") IN
    IF got.raised THEN Unhandled(got.exc)
    ELSE IF AnomalyMissing(got.val)
      THEN Return("MissingParameter",
                  << <<"error", "Missing required parameter: anomaly_id">> >>)
    ELSE LET q == mock_dynamodb_query(got.val) IN
      IF q.raised THEN [Unhandled(q.exc) EXCEPT !.queried = 1, !.table = q.table]
      ELSE IF "Error" \in DOMAIN q.val
        THEN [Return("NotFound", << <<"result", "ERROR: " \o q.val.Error>> >>)
                EXCEPT !.queried = 1, !.table = q.table]
      ELSE [Return("Found", << <<"details", AnomalyDetails(q.val)>> >>)
              EXCEPT !.queried = 1, !.table = q.table]
  ELSE UnknownFunction(ev["function"])

----------------------------------------------------------------------------
(* NovaActExecutor/index.py                                                *)

\* A presence check that refuses only when both parameters are missing.
TriageMissing_Both(resource_arn, policy_name) ==
  ~Truthy(resource_arn) /\ ~Truthy(policy_name)

\* A presence check that forgets the policy name.
TriageMissing_ArnOnly(resource_arn, policy_name) == ~Truthy(resource_arn)

TriageMissing(resource_arn, policy_name) ==
  ~Truthy(resource_arn) \/ ~Truthy(policy_name)

\* invoke_nova_act_sdk up to its time.sleep(2): the print of line 92.
NovaActBegin(resource_arn) ==
  print("Nova Act SDK: Initiating UI automation for resource: " \o resource_arn)

\* invoke_nova_act_sdk after time.sleep(2): the dict of lines 98-101.
NovaActResult(resource_arn, policy_name) ==
  << <<"status", "SUCCESS">>,
     <<"message",
       "Nova Act SDK successfully executed complex UI automation: Policy '"
         \o policy_name
         \o "' has been temporarily applied to the resource or its associated role/user ("
         \o resource_arn \o ") for triage.">> >>

\* lambda_handler of NovaActExecutor up to its first blocking point: either
\* it returns, or it is inside time.sleep with its two parameters as locals.
NovaActExecutor(ev) ==
  LET env == ReadEnvelope(ev) IN
  IF env.raised THEN Unhandled(env.exc)
  ELSE IF ev["function"] = "apply_triage_policy" THEN
    LET arn == BodyGet(env.val, "resource_arn")
        pol == BodyGet(env.val, "triage_policy_name")
    IN
    IF arn.raised THEN Unhandled(arn.exc)
    ELSE IF TriageMissing(arn.val, pol.val)
      THEN Return("MissingParameter",
                  << <<"error", "Missing required parameters for triage.">> >>)
    ELSE LET pr == NovaActBegin(FormatValue(arn.val)) IN
      IF pr.raised THEN Unhandled(pr.exc)
      ELSE [kind |-> "sleep", site |-> "", response |-> <<>>, queried |-> 0,
            table |-> MockDataLiteral,
            resource_arn |-> FormatValue(arn.val),
            policy_name |-> FormatValue(pol.val)]
  ELSE UnknownFunction(ev["function"])

----------------------------------------------------------------------------
(* The events the platform delivers                                        *)

Handlers == {"CostAnomalyChecker", "NovaActExecutor"}

OwnFunction(h) ==
  IF h = "CostAnomalyChecker" THEN "get_anomaly_details" ELSE "apply_triage_policy"

OtherFunction(h) ==
  IF h = "CostAnomalyChecker" THEN "apply_triage_policy" ELSE "get_anomaly_details"

Envelope(body, actionGroup, function) ==
  [k \in {"body", "actionGroup", "function"} |->
    CASE k = "body" -> body
      [] k = "actionGroup" -> actionGroup
      [] k = "function" -> function]

Without(ev, key) == [k \in DOMAIN ev \ {key} |-> ev[k]]

Object1(k1, v1) == <<P("{"), S(k1), P(":"), S(v1), P("}")>>

Object2(k1, v1, k2, v2) ==
  <<P("{"), S(k1), P(":"), S(v1), P(","), S(k2), P(":"), S(v2), P("}")>>

EmptyObject == <<P("{"), P("}")>>
EmptyArray == <<P("["), P("]")>>
Truncated == <<P("{")>>

AnomalyObjects ==
  {EmptyObject,
   Object1("anomaly_id", ""),
   Object1("anomaly_id", "DB-001"),
   Object1("anomaly_id", "S3-005"),
   Object1("anomaly_id", "X-999"),
   <<P("{"), S("anomaly_id"), P(":"), P("null"), P("}")>>,
   <<P("{"), S("anomaly_id"), P(":"), P("["), S("DB-001"), P("]"), P("}")>>}

TriageObjects ==
  {EmptyObject,
   Object1("resource_arn", "arn:aws:s3:::bucket"),
   Object1("triage_policy_name", "DenyAll"),
   Object2("resource_arn", "", "triage_policy_name", "DenyAll"),
   Object2("resource_arn", "arn:aws:s3:::bucket", "triage_policy_name", ""),
   Object2("resource_arn", "arn:aws:s3:::bucket", "triage_policy_name", "DenyAll"),
   Object2("resource_arn", "arn:" \o Surrogate, "triage_policy_name", "DenyAll")}

Objects(h) == IF h = "CostAnomalyChecker" THEN AnomalyObjects ELSE TriageObjects

FullObject(h) ==
  IF h = "CostAnomalyChecker" THEN Object1("anomaly_id", "DB-001")
  ELSE Object2("resource_arn", "arn:aws:s3:::bucket", "triage_policy_name", "DenyAll")

\* The events handler h is invoked with: its own function over all the
\* bodies (objects, an array, a truncated text), a second actionGroup value,
\* two unrecognized function names, and envelopes with one key missing.
Events(h) ==
  LET own == OwnFunction(h)
      other == OtherFunction(h)
      some == {EmptyObject, FullObject(h), EmptyArray, Truncated}
  IN    {Envelope(b, "TriageActions", own) : b \in Objects(h) \cup {EmptyArray, Truncated}}
   \cup {Envelope(FullObject(h), "CostTools", own)}
   \cup {Envelope(b, "TriageActions", other) : b \in some}
   \cup {Envelope(FullObject(h), "CostTools", "restart_instance")}
   \cup {Without(Envelope(b, "TriageActions", own), "actionGroup") :
           b \in {EmptyObject, FullObject(h)}}
   \cup {Without(Envelope(FullObject(h), "TriageActions", other), "actionGroup"),
         Without(Envelope(FullObject(h), "TriageActions", own), "function"),
         Without(Envelope(FullObject(h), "TriageActions", own), "body")}

----------------------------------------------------------------------------
(* The state machine                                                       *)

NoEvent == <<>>
NoResponse == <<>>
NoLocals == [resource_arn |-> "", policy_name |-> ""]

Init ==
  /\ handler = [i \in Instances |-> "none"]
  /\ event = [i \in Instances |-> NoEvent]
  /\ pc = [i \in Instances |-> "idle"]
  /\ locals = [i \in Instances |-> NoLocals]
  /\ response = [i \in Instances |-> NoResponse]
  /\ outcome = [i \in Instances |-> "none"]
  /\ queried = [i \in Instances |-> 0]
  /\ slept = [i \in Instances |-> 0]
  /\ mock_data = MockDataLiteral

\* The platform invokes handler h on an idle instance with event ev.
Invoke(i, h, ev) ==
  /\ pc[i] = "idle"
  /\ handler' = [handler EXCEPT ![i] = h]
  /\ event' = [event EXCEPT ![i] = ev]
  /\ pc' = [pc EXCEPT ![i] = "running"]
  /\ UNCHANGED <<locals, response, outcome, queried, slept, mock_data>>

\* CostAnomalyChecker lambda_handler, entry to return (lines 41-74).
RunCostAnomalyChecker(i) ==
  /\ pc[i] = "running"
  /\ handler[i] = "CostAnomalyChecker"
  /\ LET r == CostAnomalyChecker(event[i]) IN
       /\ response' = [response EXCEPT ![i] = r.response]
       /\ outcome' = [outcome EXCEPT ![i] = r.site]
       /\ queried' = [queried EXCEPT ![i] = r.queried]
       /\ mock_data' = r.table
       /\ pc' = [pc EXCEPT ![i] = IF r.kind = "raise" THEN "raised" ELSE "done"]
  /\ UNCHANGED <<handler, event, locals, slept>>

\* NovaActExecutor lambda_handler, entry to its return or to the call of
\* time.sleep (lines 104-129, 92-93).
RunNovaActExecutor(i) ==
  /\ pc[i] = "running"
  /\ handler[i] = "NovaActExecutor"
  /\ LET r == NovaActExecutor(event[i]) IN
       IF r.kind = "sleep"
       THEN /\ pc' = [pc EXCEPT ![i] = "sleeping"]
            /\ locals' = [locals EXCEPT ![i] =
                 [resource_arn |-> r.resource_arn, policy_name |-> r.policy_name]]
            /\ slept' = [slept EXCEPT ![i] = @ + 1]
            /\ UNCHANGED <<response, outcome>>
       ELSE /\ pc' = [pc EXCEPT ![i] = IF r.kind = "raise" THEN "raised" ELSE "done"]
            /\ response' = [response EXCEPT ![i] = r.response]
            /\ outcome' = [outcome EXCEPT ![i] = r.site]
            /\ UNCHANGED <<locals, slept>>
  /\ UNCHANGED <<handler, event, queried, mock_data>>

\* time.sleep returns; invoke_nova_act_sdk returns its dict and the handler
\* returns it encoded (lines 98-101, 121-123).
WakeNovaActExecutor(i) ==
  /\ pc[i] = "sleeping"
  /\ response' = [response EXCEPT ![i] =
       [x \in {"body"} |->
          json_dumps(NovaActResult(locals[i].resource_arn, locals[i].policy_name))]]
  /\ outcome' = [outcome EXCEPT ![i] = "Success"]
  /\ locals' = [locals EXCEPT ![i] = NoLocals]
  /\ pc' = [pc EXCEPT ![i] = "done"]
  /\ UNCHANGED <<handler, event, queried, slept, mock_data>>

\* The platform has taken the response (or the fault); the instance is free
\* again.
Release(i) ==
  /\ pc[i] \in {"done", "raised"}
  /\ handler' = [handler EXCEPT ![i] = "none"]
  /\ event' = [event EXCEPT ![i] = NoEvent]
  /\ pc' = [pc EXCEPT ![i] = "idle"]
  /\ response' = [response EXCEPT ![i] = NoResponse]
  /\ outcome' = [outcome EXCEPT ![i] = "none"]
  /\ queried' = [queried EXCEPT ![i] = 0]
  /\ slept' = [slept EXCEPT ![i] = 0]
  /\ UNCHANGED <<locals, mock_data>>

Next ==
  \E i \in Instances :
    \/ \E h \in Handlers : \E ev \in Events(h) : Invoke(i, h, ev)
    \/ RunCostAnomalyChecker(i)
    \/ RunNovaActExecutor(i)
    \/ WakeNovaActExecutor(i)
    \/ Release(i)

Spec == Init /\ [][Next]_vars

----------------------------------------------------------------------------
(* Vocabulary of the properties                                            *)

Done(i) == pc[i] = "done"

\* The response body of a finished invocation, decoded.
Decoded(i) == json_loads(response[i]["body"])

IsObject(i) == ~Decoded(i).raised /\ Decoded(i).val.t = "dict"

Keys(i) == DOMAIN Decoded(i).val.v

Field(i, k) == Decoded(i).val.v[k]

\* The decoded body is exactly the object {k: s}.
BodyIs(i, k, s) == IsObject(i) /\ Decoded(i).val.v = [x \in {k} |-> PyStr(s)]

HasKeys(ev, ks) == ks \subseteq DOMAIN ev

BodyDecodes(ev) == HasKeys(ev, {"body"}) /\ ~json_loads(ev["body"]).raised

BodyIsObject(ev) == BodyDecodes(ev) /\ json_loads(ev["body"]).val.t = "dict"

\* The envelope has its three keys and its body is the text of a JSON object.
WellFormed(ev) == HasKeys(ev, {"body", "actionGroup", "function"}) /\ BodyIsObject(ev)

\* The body is a JSON object in which parameter name is a non-empty string.
ParamGiven(ev, name) ==
  /\ BodyIsObject(ev)
  /\ LET o == json_loads(ev["body"]).val.v IN
       name \in DOMAIN o /\ o[name].t = "str" /\ o[name].v # ""

\* The body is a JSON object without parameter name, or with name = "".
ParamAbsentOrEmpty(ev, name) ==
  /\ BodyIsObject(ev)
  /\ LET o == json_loads(ev["body"]).val.v IN
       name \notin DOMAIN o \/ (o[name].t = "str" /\ o[name].v = "")

ParamValue(ev, name) == json_loads(ev["body"]).val.v[name].v

Calls(i, h, f) == handler[i] = h /\ HasKeys(event[i], {"function"}) /\ event[i]["function"] = f

----------------------------------------------------------------------------
(* C1: whatever the event, no invocation of either handler ends by an      *)
(* exception leaving lambda_handler, and what an invocation returns is a   *)
(* dict whose sole key is body, the body being the text of a JSON object   *)
(* whose key set is one of {error}, {result}, {details}, {status, message}.*)

C1_AlwaysAnEnvelope ==
  \A i \in Instances :
    /\ pc[i] # "raised"
    /\ Done(i) =>
         /\ DOMAIN response[i] = {"body"}
         /\ IsObject(i)
         /\ Keys(i) \in {{"error"}, {"result"}, {"details"}, {"status", "message"}}

\* Both handlers have answered malformed envelopes: one a body that is not
\* JSON, the other an envelope without the body key.
C1_Witness ==
  \E i, j \in Instances :
    /\ Done(i) /\ handler[i] = "CostAnomalyChecker"
    /\ HasKeys(event[i], {"body"}) /\ ~BodyDecodes(event[i])
    /\ Keys(i) = {"error"}
    /\ Done(j) /\ handler[j] = "NovaActExecutor"
    /\ ~HasKeys(event[j], {"body"})
    /\ Keys(j) = {"error"}

----------------------------------------------------------------------------
(* C2 as stated: an invocation ends in one of the four error conditions    *)
(* (MissingParameter, NotFound, UnknownOperation, Unhandled) exactly when  *)
(* its decoded body carries the error key.                                 *)

C2_ErrorKeyIffErrorCondition ==
  \A i \in Instances :
    Done(i) =>
      (outcome[i] \in {"MissingParameter", "NotFound", "UnknownOperation", "Unhandled"}
         <=> "error" \in Keys(i))

(* C2 amended: the body carries the error key exactly when the invocation  *)
(* ends in MissingParameter, UnknownOperation or Unhandled; NotFound is    *)
(* returned as {result: "ERROR: Anomaly not found"}, without the error     *)
(* key, and no other invocation carries the error key.                     *)

C2_ErrorKeyIffNotNotFound ==
  \A i \in Instances :
    Done(i) =>
      /\ outcome[i] \in {"MissingParameter", "UnknownOperation", "Unhandled"}
           <=> "error" \in Keys(i)
      /\ outcome[i] = "NotFound" => BodyIs(i, "result", "ERROR: Anomaly not found")
      /\ outcome[i] \in {"Found", "Success"} => "error" \notin Keys(i)

\* A lookup ended in NotFound while an unknown function ended in an error.
C2_Witness ==
  \E i, j \in Instances :
    /\ Done(i) /\ outcome[i] = "NotFound"
    /\ Done(j) /\ outcome[j] = "UnknownOperation"

----------------------------------------------------------------------------
(* C3: a well-formed get_anomaly_details invocation with a non-empty       *)
(* string anomaly_id is answered by table membership alone: for a key of   *)
(* the table, {details: s} where s embeds that record's ResourceARN,       *)
(* AnomalyType and CostImpactUSD and no other record's; otherwise exactly  *)
(* {result: "ERROR: Anomaly not found"}.                                   *)

DigitValue(c) == CHOOSE d \in 0..9 : ToString(d) = c

RECURSIVE DigitsValue(_)

DigitsValue(s) ==
  IF s = "" THEN 0
  ELSE 10 * DigitsValue(SubSeq(s, 1, Len(s) - 1)) + DigitValue(SubSeq(s, Len(s), Len(s)))

\* The amount, in hundredths, that a decimal numeral with one or two
\* fractional digits denotes.
Hundredths(s) ==
  LET dot == FirstIndex(s, ".")
      frac == SubSeq(s, dot + 1, Len(s))
  IN 100 * DigitsValue(SubSeq(s, 1, dot - 1))
       + (IF Len(frac) = 1 THEN 10 * DigitsValue(frac) ELSE DigitsValue(frac))

\* The text that follows the first occurrence of mark in s.
After(s, mark) == SubSeq(s, FirstIndex(s, mark) + Len(mark), Len(s))

C3_LookupByMembership ==
  \A i \in Instances :
    (/\ Done(i)
     /\ Calls(i, "CostAnomalyChecker", "get_anomaly_details")
     /\ WellFormed(event[i])
     /\ ParamGiven(event[i], "anomaly_id")) =>
      LET id == ParamValue(event[i], "anomaly_id") IN
      IF id \in DOMAIN MockDataLiteral
      THEN /\ IsObject(i) /\ Keys(i) = {"details"}
           /\ LET s == Field(i, "details").v
                  rec == MockDataLiteral[id]
              IN /\ Contains(s, "ResourceARN=" \o rec.ResourceARN \o ",")
                 /\ Contains(s, "Type=" \o rec.AnomalyType \o ",")
                 /\ Contains(s, "Impact=")
                 /\ Hundredths(After(s, "Impact=")) = rec.CostImpactUSD
                 /\ \A other \in DOMAIN MockDataLiteral \ {id} :
                      /\ ~Contains(s, MockDataLiteral[other].ResourceARN)
                      /\ ~Contains(s, MockDataLiteral[other].AnomalyType)
           /\ id = "DB-001" =>
                /\ Contains(Field(i, "details").v,
                     "ResourceARN=arn:aws:dynamodb:us-west-2:123456789012:table/HighCostTableA")
                /\ Contains(Field(i, "details").v, "Type=DynamoDB-Capacity")
      ELSE BodyIs(i, "result", "ERROR: Anomaly not found")

\* One instance has answered DB-001 with its details and another X-999 with
\* the not-found result.
C3_Witness ==
  \E i, j \in Instances :
    /\ Done(i) /\ Calls(i, "CostAnomalyChecker", "get_anomaly_details")
    /\ WellFormed(event[i]) /\ ParamGiven(event[i], "anomaly_id")
    /\ ParamValue(event[i], "anomaly_id") = "S3-005"
    /\ Keys(i) = {"details"}
    /\ Done(j) /\ Calls(j, "CostAnomalyChecker", "get_anomaly_details")
    /\ WellFormed(event[j]) /\ ParamGiven(event[j], "anomaly_id")
    /\ ParamValue(event[j], "anomaly_id") = "X-999"
    /\ Keys(j) = {"result"}

----------------------------------------------------------------------------
(* C4 as stated: every invocation whose envelope carries a function value  *)
(* other than the handler's own operation name returns exactly             *)
(* {error: "Unknown function: <name>"}, whatever else the envelope holds,  *)
(* with no lookup and no delay.                                            *)

UnknownCall(i) ==
  /\ handler[i] \in Handlers
  /\ HasKeys(event[i], {"function"})
  /\ event[i]["function"] # OwnFunction(handler[i])

C4_UnknownFunctionAlways ==
  \A i \in Instances :
    (Done(i) /\ UnknownCall(i)) =>
      /\ BodyIs(i, "error", "Unknown function: " \o event[i]["function"])
      /\ queried[i] = 0 /\ slept[i] = 0

(* C4 amended: the same, for the envelopes that carry the body and         *)
(* actionGroup keys too and whose body is valid JSON text (an object or    *)
(* not): there the unknown-function error comes before the missing-        *)
(* parameter and not-found outcomes, and the invocation never enters the   *)
(* lookup or the delay.                                                    *)

C4_UnknownFunctionWhenEnvelopeRead ==
  \A i \in Instances :
    (/\ UnknownCall(i)
     /\ HasKeys(event[i], {"body", "actionGroup"})
     /\ BodyDecodes(event[i])) =>
      /\ pc[i] \notin {"sleeping", "raised"}
      /\ Done(i) =>
           /\ BodyIs(i, "error", "Unknown function: " \o event[i]["function"])
           /\ outcome[i] = "UnknownOperation"
           /\ queried[i] = 0 /\ slept[i] = 0

\* Both handlers have refused a function that is not theirs: one with a
\* body that lacks its parameter, the other with a body that is no object.
C4_Witness ==
  \E i, j \in Instances :
    /\ Done(i) /\ UnknownCall(i) /\ handler[i] = "CostAnomalyChecker"
    /\ WellFormed(event[i]) /\ ~ParamGiven(event[i], "anomaly_id")
    /\ "error" \in Keys(i)
    /\ Done(j) /\ UnknownCall(j) /\ handler[j] = "NovaActExecutor"
    /\ HasKeys(event[j], {"body", "actionGroup"})
    /\ BodyDecodes(event[j]) /\ ~BodyIsObject(event[j])
    /\ "error" \in Keys(j)

----------------------------------------------------------------------------
(* C5 as stated: every get_anomaly_details invocation whose body has no    *)
(* anomaly_id, or has the empty string for it, returns exactly             *)
(* {error: "Missing required parameter: anomaly_id"}, with no lookup.      *)

C5_MissingAnomalyIdAlways ==
  \A i \in Instances :
    (/\ Done(i)
     /\ Calls(i, "CostAnomalyChecker", "get_anomaly_details")
     /\ ParamAbsentOrEmpty(event[i], "anomaly_id")) =>
      /\ BodyIs(i, "error", "Missing required parameter: anomaly_id")
      /\ queried[i] = 0

(* C5 amended: the same, for the envelopes that carry the actionGroup key  *)
(* too (the body being the text of a JSON object).                         *)

C5_MissingAnomalyIdWhenWellFormed ==
  \A i \in Instances :
    (/\ Done(i)
     /\ Calls(i, "CostAnomalyChecker", "get_anomaly_details")
     /\ WellFormed(event[i])
     /\ ParamAbsentOrEmpty(event[i], "anomaly_id")) =>
      /\ BodyIs(i, "error", "Missing required parameter: anomaly_id")
      /\ outcome[i] = "MissingParameter"
      /\ queried[i] = 0
      /\ mock_data = MockDataLiteral

\* One lookup was refused for an absent anomaly_id, another for an empty one.
C5_Witness ==
  \E i, j \in Instances :
    /\ Done(i) /\ Calls(i, "CostAnomalyChecker", "get_anomaly_details")
    /\ WellFormed(event[i])
    /\ event[i]["body"] = EmptyObject
    /\ Done(j) /\ Calls(j, "CostAnomalyChecker", "get_anomaly_details")
    /\ WellFormed(event[j])
    /\ event[j]["body"] = Object1("anomaly_id", "")
    /\ Keys(i) = {"error"} /\ Keys(j) = {"error"}

----------------------------------------------------------------------------
(* C6: every apply_triage_policy invocation (envelope well-formed) in      *)
(* which resource_arn and triage_policy_name are both non-empty strings    *)
(* returns {status: "SUCCESS", message: m} where m contains both values.   *)

C6_TriageSucceeds ==
  \A i \in Instances :
    (/\ Done(i)
     /\ Calls(i, "NovaActExecutor", "apply_triage_policy")
     /\ WellFormed(event[i])
     /\ ParamGiven(event[i], "resource_arn")
     /\ ParamGiven(event[i], "triage_policy_name")) =>
      /\ IsObject(i) /\ Keys(i) = {"status", "message"}
      /\ Field(i, "status") = PyStr("SUCCESS")
      /\ Contains(Field(i, "message").v, ParamValue(event[i], "resource_arn"))
      /\ Contains(Field(i, "message").v, ParamValue(event[i], "triage_policy_name"))

----------------------------------------------------------------------------
(* C7 as stated: every apply_triage_policy invocation in which             *)
(* resource_arn or triage_policy_name is absent or empty returns exactly   *)
(* {error: "Missing required parameters for triage."}.                     *)

C7_MissingTriageParamAlways ==
  \A i \in Instances :
    (/\ Done(i)
     /\ Calls(i, "NovaActExecutor", "apply_triage_policy")
     /\ \/ ParamAbsentOrEmpty(event[i], "resource_arn")
        \/ ParamAbsentOrEmpty(event[i], "triage_policy_name")) =>
      BodyIs(i, "error", "Missing required parameters for triage.")

(* C7 amended: the same, for the envelopes that carry the actionGroup key  *)
(* too (the body being the text of a JSON object); such an invocation      *)
(* never enters the delay and never returns SUCCESS.                       *)

C7_MissingTriageParamWhenWellFormed ==
  \A i \in Instances :
    (/\ Calls(i, "NovaActExecutor", "apply_triage_policy")
     /\ WellFormed(event[i])
     /\ \/ ParamAbsentOrEmpty(event[i], "resource_arn")
        \/ ParamAbsentOrEmpty(event[i], "triage_policy_name")) =>
      /\ pc[i] \notin {"sleeping", "raised"}
      /\ slept[i] = 0
      /\ Done(i) =>
           /\ BodyIs(i, "error", "Missing required parameters for triage.")
           /\ outcome[i] = "MissingParameter"

\* One triage was refused with only resource_arn given, another with only
\* triage_policy_name given.
C7_Witness ==
  \E i, j \in Instances :
    /\ Done(i) /\ Calls(i, "NovaActExecutor", "apply_triage_policy")
    /\ WellFormed(event[i])
    /\ ParamGiven(event[i], "resource_arn")
    /\ ParamAbsentOrEmpty(event[i], "triage_policy_name")
    /\ Done(j) /\ Calls(j, "NovaActExecutor", "apply_triage_policy")
    /\ WellFormed(event[j])
    /\ ParamGiven(event[j], "triage_policy_name")
    /\ ParamAbsentOrEmpty(event[j], "resource_arn")
    /\ Keys(i) = {"error"} /\ Keys(j) = {"error"}

----------------------------------------------------------------------------
(* C8: the handlers share no mutable state. Over every interleaving of     *)
(* invocations on the concurrent instances, the anomaly table has the      *)
(* content of its literal after every call, and two finished invocations   *)
(* of the same handler with the same event hold the same response,         *)
(* whatever the other instances did meanwhile.                             *)

----------------------------------------------------------------------------
(* C9: in NovaActExecutor an invocation enters the simulated delay at most *)
(* once, only after both parameters passed the presence check and before   *)
(* it holds a response; a finished invocation has slept exactly when it    *)
(* returned the SUCCESS result, and one that returned an error envelope    *)
(* never slept. CostAnomalyChecker never sleeps.                           *)

C9_DelayIffSuccess ==
  \A i \in Instances :
    /\ slept[i] <= 1
    /\ handler[i] # "NovaActExecutor" => slept[i] = 0 /\ pc[i] # "sleeping"
    /\ pc[i] = "sleeping" =>
         /\ slept[i] = 1
         /\ DOMAIN response[i] = {}
         /\ Calls(i, "NovaActExecutor", "apply_triage_policy")
         /\ WellFormed(event[i])
         /\ ParamGiven(event[i], "resource_arn")
         /\ ParamGiven(event[i], "triage_policy_name")
    /\ Done(i) =>
         /\ slept[i] = 1 <=> outcome[i] = "Success"
         /\ outcome[i] = "Success" <=>
              (IsObject(i) /\ "status" \in Keys(i) /\ Field(i, "status") = PyStr("SUCCESS"))
         /\ "error" \in Keys(i) => slept[i] = 0

\* One instance is inside the delay while another one has finished a triage
\* with an error envelope, without sleeping.
C9_Witness ==
  \E i, j \in Instances :
    /\ pc[i] = "sleeping"
    /\ Done(j) /\ handler[j] = "NovaActExecutor"
    /\ outcome[j] = "MissingParameter" /\ slept[j] = 0

----------------------------------------------------------------------------
(* C10: the value of actionGroup does not matter, its presence does. Two   *)
(* finished invocations of one handler whose envelopes differ in the value *)
(* of actionGroup only hold the same response; an envelope that lacks      *)
(* actionGroup, or whose body is not valid JSON, ends Unhandled with an    *)
(* {error} body that is neither the unknown-function nor a missing-        *)
(* parameter error, and never reaches the lookup or the delay.             *)

C10_ActionGroupPresenceOnly ==
  /\ \A i, j \in Instances :
       (/\ Done(i) /\ Done(j)
        /\ handler[i] = handler[j]
        /\ HasKeys(event[i], {"actionGroup"})
        /\ HasKeys(event[j], {"actionGroup"})
        /\ Without(event[i], "actionGroup") = Without(event[j], "actionGroup")) =>
         /\ response[i] = response[j]
         /\ outcome[i] = outcome[j]
  /\ \A i \in Instances :
       (/\ handler[i] \in Handlers
        /\ \/ ~HasKeys(event[i], {"actionGroup"})
           \/ HasKeys(event[i], {"body"}) /\ ~BodyDecodes(event[i])) =>
         /\ pc[i] \notin {"sleeping", "raised"}
         /\ queried[i] = 0 /\ slept[i] = 0
         /\ Done(i) =>
              /\ outcome[i] = "Unhandled"
              /\ IsObject(i) /\ Keys(i) = {"error"}
              /\ ~Contains(Field(i, "error").v, "Unknown function")
              /\ ~Contains(Field(i, "error").v, "Missing required parameter")

\* A lookup whose envelope is complete has found its record, while the same
\* envelope without actionGroup was answered with the Unhandled error.
C10_Witness ==
  \E i, j \in Instances :
    /\ Done(i) /\ Done(j)
    /\ handler[i] = "CostAnomalyChecker"
    /\ HasKeys(event[i], {"actionGroup"})
    /\ outcome[i] = "Found"
    /\ handler[j] = "CostAnomalyChecker"
    /\ ~HasKeys(event[j], {"actionGroup"})
    /\ Without(event[i], "actionGroup") = event[j]
    /\ outcome[j] = "Unhandled"

============================================================================
